---- MODULE Spec2Model ----
(***************************************************************************)
(* Model of cassiopeia/datastores/riotapi/staticdata.py: the StaticDataAPI *)
(* data source (single get, list get with its per-type cache, and the      *)
(* get_many generators).                                                   *)
(*                                                                         *)
(* Python values are modelled as tagged pairs <<type, value>> so that      *)
(* values of different Python types are comparable and never equal         *)
(* (1 != "1").  A dict is modelled as the sequence of its <<key, value>>   *)
(* items in insertion order; a dto (a dict whose iteration order is never  *)
(* used) as a function from field names to values.                         *)
(***************************************************************************)
EXTENDS Integers, Sequences, FiniteSets, TLC

(***************************************************************************)
(* Python values                                                           *)
(***************************************************************************)
PyStr(s) == <<"str", s>>
PyInt(n) == <<"int", n>>
PyBool(b) == <<"bool", b>>
PySet(s) == <<"set", s>>
PyList(s) == <<"list", s>>
PyPlatform(p) == <<"Platform", p>>
PyNone == <<"None", "None">>

IsStr(v) == v[1] = "str"
IsInt(v) == v[1] = "int"
IsSet(v) == v[1] = "set"
IsIterable(v) == v[1] \in {"list", "set", "str"}
IsPlatform(v) == v[1] = "Platform"

\* str(id) for the integer ids of the model
StrOfInt(n) ==
    CASE n = 1 -> "1"
      [] n = 2 -> "2"
      [] n = 3632 -> "3632"
      [] n = 999999 -> "999999"
      [] OTHER -> "0"

\* str(value): the text of an int, a str itself
PyStrOf(v) == IF IsInt(v) THEN PyStr(StrOfInt(v[2])) ELSE v

(***************************************************************************)
(* dicts in insertion order: sequences of <<key, value>>                   *)
(***************************************************************************)
Keys(d) == {d[i][1] : i \in 1..Len(d)}
Has(d, k) == k \in Keys(d)
Item(d, k) == d[CHOOSE i \in 1..Len(d) : d[i][1] = k][2]
Values(d) == [i \in 1..Len(d) |-> d[i][2]]
\* d[k] = v: an existing key keeps its position, a new key goes last
SetItem(d, k, v) ==
    IF Has(d, k)
    THEN [i \in 1..Len(d) |-> IF d[i][1] = k THEN <<k, v>> ELSE d[i]]
    ELSE Append(d, <<k, v>>)
\* d.pop(k)
Pop(d, k) == SelectSeq(d, LAMBDA it : it[1] # k)

\* dto fields
Put(r, k, v) == [x \in (DOMAIN r) \cup {k} |-> IF x = k THEN v ELSE r[x]]
HasField(r, k) == k \in DOMAIN r
\* dto.get(k, None)
GetField(r, k) == IF k \in DOMAIN r THEN r[k] ELSE PyNone

(***************************************************************************)
(* Platform table (cassiopeia.data.Platform): region and default locale    *)
(***************************************************************************)
Platforms == {"NA1", "EUW1"}
Region(p) == IF p = "NA1" THEN "NA" ELSE "EUW"
DefaultLocale(p) == IF p = "NA1" THEN "en_US" ELSE "en_GB"
\* query["platform"].region.value
region_value(pv) == PyStr(Region(pv[2]))
\* query["platform"].default_locale
default_locale(pv) == PyStr(DefaultLocale(pv[2]))

\* the mutant of get_default_locale that takes the locale of one platform
\* whatever the platform of the query
get_default_locale_of_na(query) == default_locale(PyPlatform("NA1"))

\* the mutant of get_default_locale with one locale for every platform
get_default_locale_fixed(query) == PyStr("en_US")

\* _get_default_locale(query, context)
get_default_locale(query) == default_locale(Item(query, "platform"))

(***************************************************************************)
(* calculate_hash                                                          *)
(***************************************************************************)
\* the keys of the model in the order Python's sorted() puts them
KeyOrder ==
    <<"dataById", "id", "ids", "includedData", "locale", "name",
      "platform", "platforms", "version", "versions">>
KeyRank(k) == CHOOSE i \in 1..Len(KeyOrder) : KeyOrder[i] = k

RECURSIVE SortedItems(_)
\* sorted(query.items()): keys are distinct, so the items come in key order
SortedItems(d) ==
    IF d = <<>> THEN <<>>
    ELSE LET m == CHOOSE i \in 1..Len(d) :
                     \A j \in 1..Len(d) : KeyRank(d[i][1]) <= KeyRank(d[j][1])
         IN  <<d[m]>> \o SortedItems(Pop(d, d[m][1]))

\* uniquekeys._hash_included_data: a stable number for a set of tags
hash_included_data(value) ==
    PyInt(CASE value[2] = {"all"} -> 11
            [] value[2] = {"stats"} -> 12
            [] value[2] = {"all", "stats"} -> 13
            [] OTHER -> 10)

\* the mutant of calculate_hash that takes the values in insertion order
calculate_hash_unsorted(query) ==
    LET hash == Values(query)
    IN  [i \in 1..Len(hash) |->
            IF IsSet(hash[i]) THEN hash_included_data(hash[i]) ELSE hash[i]]

calculate_hash(query) ==
    LET hash == Values(SortedItems(query))
    IN  [i \in 1..Len(hash) |->
            IF IsSet(hash[i]) THEN hash_included_data(hash[i]) ELSE hash[i]]

(***************************************************************************)
(* Transport (RiotAPIService._get): a request and the answers it may get   *)
(***************************************************************************)
Request(ep, platform, id, params) ==
    [ep |-> ep, platform |-> platform, id |-> id, params |-> params]

Ok(body) == [status |-> "ok", body |-> body]
\* APINotFoundError, with its message
RemoteNotFound == [status |-> "404", msg |-> "404 from the service"]
\* any other failure of the transport
RemoteFailure == [status |-> "error", msg |-> "timeout"]

\* the outcome of a call that raised
Raised(exc, msg, query, calls) ==
    [outcome |-> exc, msg |-> msg, query |-> query, calls |-> calls]
\* the mutant of RaisedByTransport that turns every failure of the transport
\* into NotFound
RaisedAsNotFound(resp, query, calls) ==
    Raised("NotFound", resp.msg, query, calls)

\* except APINotFoundError as error: raise NotFoundError(str(error)) from error
\* (any other transport failure propagates)
RaisedByTransport(resp, query, calls) ==
    IF resp.status = "404"
    THEN Raised("NotFound", resp.msg, query, calls)
    ELSE Raised("TransportError", resp.msg, query, calls)

(***************************************************************************)
(* Realms and the default version                                          *)
(***************************************************************************)
\* get_realms: one request; the record is the payload stamped with region
get_realms(query, resp) ==
    LET call == Request("realms", Item(query, "platform")[2], PyNone, <<>>)
    IN  IF resp.status # "ok"
        THEN RaisedByTransport(resp, query, <<call>>)
        ELSE [outcome |-> "ok", query |-> query, calls |-> <<call>>,
              result |-> Put(resp.body, "region",
                             region_value(Item(query, "platform")))]

\* the mutant of get_default_version that knows the version without asking
get_default_version_unasked(query, realmResp) ==
    [outcome |-> "ok", calls |-> <<>>, value |-> PyStr("7.1")]

\* _get_default_version: pipeline.get(RealmDto, {"platform": ...})["v"]
get_default_version(query, realmResp) ==
    LET realms == get_realms(<<(<<"platform", Item(query, "platform")>>)>>, realmResp)
    IN  IF realms.outcome # "ok"
        THEN realms
        ELSE [outcome |-> "ok", calls |-> realms.calls, value |-> realms.result["v"]]

(***************************************************************************)
(* Query validation (datapipelines.Query)                                  *)
(***************************************************************************)
has(key, type) == [kind |-> "has", key |-> key, type |-> type]
has_or(key, type, alt, alttype) ==
    [kind |-> "or", key |-> key, type |-> type, alt |-> alt, alttype |-> alttype]
can_have(key, type) ==
    [kind |-> "can_have", key |-> key, type |-> type, default |-> "none"]
can_have_default_fn(key, fn, type) ==
    [kind |-> "can_have", key |-> key, type |-> type, default |-> fn]
can_have_default(key, value) ==
    [kind |-> "can_have", key |-> key, type |-> "any", default |-> "value",
     value |-> value]

TypeOk(v, type) ==
    CASE type = "any" -> TRUE
      [] type = "int" -> IsInt(v)
      [] type = "str" -> IsStr(v)
      [] type = "Platform" -> IsPlatform(v)
      [] type = "Iterable" -> IsIterable(v)

\* one declaration of a schema holds of the query
RuleOk(rule, q) ==
    CASE rule.kind = "has" -> Has(q, rule.key) /\ TypeOk(Item(q, rule.key), rule.type)
      [] rule.kind = "or" ->
            \/ /\ Has(q, rule.key) /\ ~Has(q, rule.alt)
               /\ TypeOk(Item(q, rule.key), rule.type)
            \/ /\ ~Has(q, rule.key) /\ Has(q, rule.alt)
               /\ TypeOk(Item(q, rule.alt), rule.alttype)
      [] rule.kind = "can_have" ->
            Has(q, rule.key) => TypeOk(Item(q, rule.key), rule.type)

RECURSIVE FillDefaults(_, _, _, _)
\* the can-have declarations in order: an absent key gets its default
FillDefaults(rules, q, realmResp, calls) ==
    IF rules = <<>> THEN [outcome |-> "ok", query |-> q, calls |-> calls]
    ELSE LET rule == Head(rules) IN
         IF rule.kind # "can_have" \/ rule.default = "none" \/ Has(q, rule.key)
         THEN FillDefaults(Tail(rules), q, realmResp, calls)
         ELSE CASE rule.default = "version" ->
                    LET v == get_default_version(q, realmResp) IN
                    IF v.outcome # "ok"
                    THEN Raised(v.outcome, v.msg, q, calls \o v.calls)
                    ELSE FillDefaults(Tail(rules), SetItem(q, rule.key, v.value),
                                      realmResp, calls \o v.calls)
                [] rule.default = "locale" ->
                    FillDefaults(Tail(rules),
                                 SetItem(q, rule.key, get_default_locale(q)),
                                 realmResp, calls)
                [] rule.default = "value" ->
                    FillDefaults(Tail(rules), SetItem(q, rule.key, rule.value),
                                 realmResp, calls)

\* Query.__call__(query, context): InvalidQuery, or the query with its defaults
Validate(rules, q, realmResp) ==
    IF \E i \in 1..Len(rules) : ~RuleOk(rules[i], q)
    THEN Raised("InvalidQuery", "invalid query", q, <<>>)
    ELSE FillDefaults(rules, q, realmResp, <<>>)

(***************************************************************************)
(* The entity types and their query schemas                                *)
(***************************************************************************)
\* the types served from a list: self._cache has one dict for each list type
ListTypes == {"champion", "mastery", "rune", "item", "summoner_spell", "map"}
\* the types with a get_many by ids and a get_many of lists
ManyTypes == ListTypes \ {"map"}
\* the types with a get_many over platforms: the lists of those, realms,
\* languages, language strings and profile icons
ManyPlatformTypes ==
    ManyTypes \cup {"realm", "language", "language_strings", "profile_icons"}

AllTags == PySet({"all"})

\* the mutant of validate_get_query that declares no identity keys
validate_get_query_without_identity(t) ==
    <<has("platform", "Platform"),
      can_have_default_fn("version", "version", "str"),
      can_have_default_fn("locale", "locale", "str")>>
    \o (IF t = "map" THEN <<>> ELSE <<can_have_default("includedData", AllTags)>>)

\* the mutant of validate_get_query in which id and name are both optional
validate_get_query_identity_optional(t) ==
    <<can_have("id", "int"), can_have("name", "str"),
      has("platform", "Platform"),
      can_have_default_fn("version", "version", "str"),
      can_have_default_fn("locale", "locale", "str")>>
    \o (IF t = "map" THEN <<>> ELSE <<can_have_default("includedData", AllTags)>>)

\* _validate_get_<type>_query
validate_get_query(t) ==
    <<has_or("id", "int", "name", "str"),
      has("platform", "Platform"),
      can_have_default_fn("version", "version", "str"),
      can_have_default_fn("locale", "locale", "str")>>
    \o (IF t = "map" THEN <<>> ELSE <<can_have_default("includedData", AllTags)>>)

\* _validate_get_<type>_list_query
validate_get_list_query(t) ==
    <<has("platform", "Platform"),
      can_have("version", "str"),
      can_have_default_fn("locale", "locale", "str"),
      can_have_default("includedData", AllTags)>>
    \o (IF t = "champion"
        THEN <<can_have_default("dataById", PyBool(FALSE))>> ELSE <<>>)

\* _validate_get_many_<type>_query
validate_get_many_query(t) ==
    <<has("ids", "Iterable"),
      has("platform", "Platform"),
      can_have("version", "str"),
      can_have_default_fn("locale", "locale", "str"),
      can_have_default("includedData", AllTags)>>

\* _validate_get_many_<type>_list_query
validate_get_many_list_query(t) ==
    CASE t \in {"realm", "language"} -> <<has("platforms", "Iterable")>>
      [] t \in {"language_strings", "profile_icons"} ->
            <<has("platforms", "Iterable"),
              can_have("version", "str"),
              can_have("locale", "str")>>
      [] OTHER ->
            <<has("platforms", "Iterable"),
              can_have("version", "str"),
              can_have("locale", "str"),
              can_have_default("includedData", AllTags)>>
            \o (IF t = "champion"
                THEN <<can_have_default("dataById", PyBool(FALSE))>> ELSE <<>>)

\* the last path segment of the list url of a type
ListEndpoint(t) ==
    CASE t = "champion" -> "champions"
      [] t = "mastery" -> "masteries"
      [] t = "rune" -> "runes"
      [] t = "item" -> "items"
      [] t = "summoner_spell" -> "summoner-spells"
      [] t = "map" -> "maps"
      [] t = "realm" -> "realms"
      [] t = "language" -> "languages"
      [] t = "language_strings" -> "language-strings"
      [] t = "profile_icons" -> "profile-icons"
      [] t = "versions" -> "versions"

\* ",".join(list(query["includedData"]))
JoinTags(v) == <<"joined", v[2]>>

(***************************************************************************)
(* Stamping and the item repair rules                                      *)
(***************************************************************************)
\* the four assignments region, version, locale, includedData on a record
Stamp(rec, region, version, locale, includedData) ==
    Put(Put(Put(Put(rec, "region", region), "version", version),
            "locale", locale), "includedData", includedData)

\* the mutant of NormalizeItem that keeps the name of item 3632
NormalizeItemKeepName(item) ==
    LET b == IF HasField(item, "tags") THEN item ELSE Put(item, "tags", PyList(<<>>))
        c == IF HasField(b, "depth") THEN b ELSE Put(b, "depth", PyInt(1))
        d == IF HasField(c, "colloq") THEN c ELSE Put(c, "colloq", PyStr(""))
    IN  IF HasField(d, "plaintext") THEN d ELSE Put(d, "plaintext", PyStr(""))

\* the mutant of NormalizeItem that sets depth whether the payload has it or
\* not
NormalizeItemDepthOne(item) ==
    LET a == IF item["id"] = PyInt(3632) THEN Put(item, "name", PyStr("")) ELSE item
        b == IF HasField(a, "tags") THEN a ELSE Put(a, "tags", PyList(<<>>))
        c == Put(b, "depth", PyInt(1))
        d == IF HasField(c, "colloq") THEN c ELSE Put(c, "colloq", PyStr(""))
    IN  IF HasField(d, "plaintext") THEN d ELSE Put(d, "plaintext", PyStr(""))

\* the repair rules of an item record
NormalizeItem(item) ==
    LET a == IF item["id"] = PyInt(3632) THEN Put(item, "name", PyStr("")) ELSE item
        b == IF HasField(a, "tags") THEN a ELSE Put(a, "tags", PyList(<<>>))
        c == IF HasField(b, "depth") THEN b ELSE Put(b, "depth", PyInt(1))
        d == IF HasField(c, "colloq") THEN c ELSE Put(c, "colloq", PyStr(""))
    IN  IF HasField(d, "plaintext") THEN d ELSE Put(d, "plaintext", PyStr(""))

\* the dict data["data"] with every record replaced by F(record)
MapRecords(items, F(_)) == [i \in 1..Len(items) |-> <<items[i][1], F(items[i][2])>>]

\* a value computed once and used under a name, as a local variable is
Bind(x, F(_)) == F(x)

(***************************************************************************)
(* get_<type>_list: the cached list operations                             *)
(***************************************************************************)
NoResult == [none |-> "None"]

\* every field of the outcome of a call; a call that raised returns nothing
\* and leaves the cache it was given.  listq is the query a single get
\* handed to the list operation, as the list operation left it.
Full(r, c) ==
    [outcome |-> r.outcome,
     msg |-> IF "msg" \in DOMAIN r THEN r.msg ELSE "",
     query |-> r.query,
     calls |-> r.calls,
     result |-> IF "result" \in DOMAIN r THEN r.result ELSE NoResult,
     cache |-> IF "cache" \in DOMAIN r THEN r.cache ELSE c,
     reads |-> IF "reads" \in DOMAIN r THEN r.reads ELSE 0,
     listq |-> IF "listq" \in DOMAIN r THEN r.listq ELSE <<>>]

\* params of the list request
ListParams(t, query) ==
    LET base == IF t = "map"
                THEN <<(<<"locale", Item(query, "locale")>>)>>
                ELSE <<(<<"locale", Item(query, "locale")>>),
                       (<<"tags", JoinTags(Item(query, "includedData"))>>)>>
        byid == IF t = "champion"
                THEN Append(base, <<"dataById", Item(query, "dataById")>>) ELSE base
    IN  IF Has(query, "version")
        THEN Append(byid, <<"version", Item(query, "version")>>) ELSE byid

\* the version a list operation puts on the records of the list:
\* data["version"] for masteries, query["version"] for the others
ListRecordVersion(t, query, data) ==
    IF t = "mastery" THEN data["version"] ELSE Item(query, "version")

\* the loop of a list operation over the records of the fetched data
StampListRecords(t, query, data) ==
    LET items == data["data"]
        region == region_value(Item(query, "platform"))
        locale == Item(query, "locale")
        incl == Item(query, "includedData")
    IN  CASE t = "map" -> [outcome |-> "ok", items |-> items]
          [] items = <<>> -> [outcome |-> "ok", items |-> items]
          \* for summoner_spell in data["data"]: a str does not take item assignment
          [] t = "summoner_spell" -> [outcome |-> "TypeError"]
          [] t # "mastery" /\ ~Has(query, "version") -> [outcome |-> "KeyError"]
          [] t = "item" ->
                [outcome |-> "ok",
                 items |-> MapRecords(items,
                     LAMBDA r : Stamp(NormalizeItem(r), region,
                                      ListRecordVersion(t, query, data), locale, incl))]
          [] OTHER ->
                [outcome |-> "ok",
                 items |-> MapRecords(items,
                     LAMBDA r : Stamp(r, region,
                                      ListRecordVersion(t, query, data), locale, incl))]

\* data["region"], data["locale"], data["includedData"] of the list itself
StampList(t, query, data, items) ==
    LET a == Put(Put(data, "region", region_value(Item(query, "platform"))),
                 "locale", Item(query, "locale"))
        b == IF t = "map" THEN a ELSE Put(a, "includedData", Item(query, "includedData"))
    IN  Put(b, "data", items)

\* the mutant of CacheLookup that never finds an entry
CacheLookupMiss(c, t, ahash) == FALSE
\* try: return self._cache[ListDto][ahash]  except KeyError: pass
CacheLookup(c, t, ahash) == ahash \in DOMAIN c[t]

\* the mutant of CacheStore that keeps the newest list of a type only
CacheStoreEvicting(c, t, ahash, result) == [c EXCEPT ![t] = (ahash :> result)]
\* the mutant of CacheStore that keeps the list the hash already has
CacheStoreKeepFirst(c, t, ahash, result) == [c EXCEPT ![t] = @ @@ (ahash :> result)]
\* self._cache[ListDto][ahash] = result
CacheStore(c, t, ahash, result) == [c EXCEPT ![t] = (ahash :> result) @@ @]

\* the mutant of get_list that stores the payload as soon as it has it and
\* stamps it afterwards
get_list_store_first(t, q, resp, c) ==
    Bind(Validate(validate_get_list_query(t), q, RemoteFailure), LAMBDA v :
    IF v.outcome # "ok" THEN v
    ELSE
    Bind(v.query, LAMBDA query :
    Bind(calculate_hash(query), LAMBDA ahash :
    Bind(Request(ListEndpoint(t), Item(query, "platform")[2], PyNone,
                 ListParams(t, query)), LAMBDA call :
        IF CacheLookup(c, t, ahash)
        THEN [outcome |-> "ok", query |-> query, calls |-> <<>>,
              result |-> c[t][ahash], reads |-> 1]
        ELSE IF resp.status # "ok"
        THEN RaisedByTransport(resp, query, <<call>>) @@ [reads |-> 1]
        ELSE Bind(StampListRecords(t, query, resp.body), LAMBDA st :
             IF st.outcome # "ok"
             THEN Raised(st.outcome, "", query, <<call>>)
                  @@ [reads |-> 1, cache |-> CacheStore(c, t, ahash, resp.body)]
             ELSE Bind(StampList(t, query, resp.body, st.items), LAMBDA result :
                  [outcome |-> "ok", query |-> query, calls |-> <<call>>,
                   result |-> result, reads |-> 1,
                   cache |-> CacheStore(c, t, ahash, result)]))))))

\* get_champion_list, get_mastery_list, get_rune_list, get_item_list,
\* get_map_list, get_summoner_spell_list
get_list(t, q, resp, c) ==
    Bind(Validate(validate_get_list_query(t), q, RemoteFailure), LAMBDA v :
    IF v.outcome # "ok" THEN v
    ELSE
    Bind(v.query, LAMBDA query :
    Bind(calculate_hash(query), LAMBDA ahash :
    Bind(Request(ListEndpoint(t), Item(query, "platform")[2], PyNone,
                 ListParams(t, query)), LAMBDA call :
        IF CacheLookup(c, t, ahash)
        THEN [outcome |-> "ok", query |-> query, calls |-> <<>>,
              result |-> c[t][ahash], reads |-> 1]
        ELSE IF resp.status # "ok"
        THEN RaisedByTransport(resp, query, <<call>>) @@ [reads |-> 1]
        ELSE Bind(StampListRecords(t, query, resp.body), LAMBDA st :
             IF st.outcome # "ok"
             THEN Raised(st.outcome, "", query, <<call>>) @@ [reads |-> 1]
             ELSE Bind(StampList(t, query, resp.body, st.items), LAMBDA result :
                  [outcome |-> "ok", query |-> query, calls |-> <<call>>,
                   result |-> result, reads |-> 1,
                   cache |-> CacheStore(c, t, ahash, result)]))))))

(***************************************************************************)
(* get_<type>: the single-entity operations                                *)
(***************************************************************************)
\* the mutant of find_matching_attribute that takes the last record whose
\* attribute equals the value
find_matching_attribute_last(items, attrname, attrvalue) ==
    LET hits == {i \in 1..Len(items) : GetField(items[i][2], attrname) = attrvalue}
    IN  IF hits = {} THEN 0 ELSE CHOOSE i \in hits : \A j \in hits : i >= j

\* the mutant of find_matching_attribute that takes the first record of the
\* list whatever its attribute
find_matching_attribute_any(items, attrname, attrvalue) ==
    IF items = <<>> THEN 0 ELSE 1

\* find_matching_attribute over list["data"].values(): the index of the first
\* record whose attribute equals the value, 0 when the loop ends without one
find_matching_attribute(items, attrname, attrvalue) ==
    LET hits == {i \in 1..Len(items) : GetField(items[i][2], attrname) = attrvalue}
    IN  IF hits = {} THEN 0 ELSE CHOOSE i \in hits : \A j \in hits : i <= j

\* the assignments region, version, locale (and includedData, except for a
\* map) of a single get, all from the query
StampFromQuery(t, rec, query) ==
    LET a == Put(Put(Put(rec, "region", region_value(Item(query, "platform"))),
                     "version", Item(query, "version")),
                 "locale", Item(query, "locale"))
    IN  IF t = "map" THEN a ELSE Put(a, "includedData", Item(query, "includedData"))

\* params of the request for one entity by id
SingleParams(query) ==
    <<(<<"version", Item(query, "version")>>),
      (<<"locale", Item(query, "locale")>>),
      (<<"tags", JoinTags(Item(query, "includedData"))>>)>>

\* the mutant of get_by_list that hands the list operation the query with
\* its identity keys
get_by_list_keep_identity(t, query, calls, resp, c) ==
    Bind(Full(get_list(t, query, resp, c), c), LAMBDA l :
        IF l.outcome # "ok"
        THEN Raised(l.outcome, l.msg, query, calls \o l.calls) @@ [reads |-> l.reads]
        ELSE
        Bind(l.result["data"], LAMBDA items :
        Bind(IF Has(query, "id") THEN "id" ELSE "name", LAMBDA attr :
        Bind(find_matching_attribute(items, attr, Item(query, attr)), LAMBDA i :
            IF i = 0
            THEN Raised("NotFound", "", query, calls \o l.calls)
                 @@ [reads |-> l.reads, cache |-> l.cache]
            ELSE
            Bind(StampFromQuery(t, items[i][2], query), LAMBDA found :
                [outcome |-> "ok", query |-> query, calls |-> calls \o l.calls,
                 result |-> found, reads |-> l.reads,
                 cache |-> [l.cache EXCEPT ![t] =
                     (calculate_hash(l.query) :>
                         Put(l.result, "data",
                             [items EXCEPT ![i] = <<items[i][1], found>>])) @@ @]])))))

\* the mutant of get_by_list that strips the identity keys from the query of
\* the caller itself and hands that to the list operation: after the list
\* operation the query has neither id nor name
get_by_list_in_place(t, query, calls, resp, c) ==
    Bind(Full(get_list(t, Pop(Pop(query, "id"), "name"), resp, c), c), LAMBDA l :
        IF l.outcome # "ok"
        THEN Raised(l.outcome, l.msg, l.query, calls \o l.calls)
             @@ [reads |-> l.reads, listq |-> l.query]
        ELSE Raised("ValueError", "Impossible!", l.query, calls \o l.calls)
             @@ [reads |-> l.reads, cache |-> l.cache, listq |-> l.query])

\* the list-and-filter branch: if settings.request_by_id or "name" in query
get_by_list(t, query, calls, resp, c) ==
    Bind(Full(get_list(t, Pop(Pop(query, "id"), "name"), resp, c), c), LAMBDA l :
        IF l.outcome # "ok"
        THEN Raised(l.outcome, l.msg, query, calls \o l.calls) @@ [reads |-> l.reads, listq |-> l.query]
        ELSE IF ~Has(query, "id") /\ ~Has(query, "name")
        THEN \* raise ValueError("Impossible!")
             Raised("ValueError", "Impossible!", query, calls \o l.calls)
             @@ [reads |-> l.reads, cache |-> l.cache, listq |-> l.query]
        ELSE
        Bind(l.result["data"], LAMBDA items :
        Bind(IF Has(query, "id") THEN "id" ELSE "name", LAMBDA attr :
        Bind(find_matching_attribute(items, attr, Item(query, attr)), LAMBDA i :
            IF i = 0
            THEN Raised("NotFound", "", query, calls \o l.calls)
                 @@ [reads |-> l.reads, cache |-> l.cache, listq |-> l.query]
            ELSE
            Bind(StampFromQuery(t, items[i][2], query), LAMBDA found :
                \* the record is the one held by the list, which the cache holds
                [outcome |-> "ok", query |-> query, calls |-> calls \o l.calls,
                 result |-> found, reads |-> l.reads, listq |-> l.query,
                 cache |-> [l.cache EXCEPT ![t] =
                     (calculate_hash(l.query) :>
                         Put(l.result, "data",
                             [items EXCEPT ![i] = <<items[i][1], found>>])) @@ @]])))))

\* the mutant of get_by_id that keeps the record it fetched in the cache of
\* the type
get_by_id_caching(t, query, calls, resp, c) ==
    IF t = "map"
    THEN [outcome |-> "ok", query |-> query, calls |-> calls, result |-> NoResult]
    ELSE IF ~Has(query, "id")
    THEN Raised("KeyError", "id", query, calls)
    ELSE
    LET call == Request(ListEndpoint(t), Item(query, "platform")[2],
                        Item(query, "id"), SingleParams(query))
    IN  IF resp.status # "ok"
        THEN RaisedByTransport(resp, query, Append(calls, call))
        ELSE LET data == StampFromQuery(t, resp.body, query)
             IN  [outcome |-> "ok", query |-> query, calls |-> Append(calls, call),
                  result |-> IF t = "item" THEN NormalizeItem(data) ELSE data,
                  cache |-> CacheStore(c, t, calculate_hash(query), data)]

\* the else branch: the request for one entity by id
get_by_id(t, query, calls, resp, c) ==
    IF t = "map"
    THEN \* get_map has no else branch: the function ends and returns None
         [outcome |-> "ok", query |-> query, calls |-> calls, result |-> NoResult]
    ELSE IF ~Has(query, "id")
    THEN \* query["id"] of a query without id
         Raised("KeyError", "id", query, calls)
    ELSE
    LET call == Request(ListEndpoint(t), Item(query, "platform")[2],
                        Item(query, "id"), SingleParams(query))
    IN  IF resp.status # "ok"
        THEN RaisedByTransport(resp, query, Append(calls, call))
        ELSE LET data == StampFromQuery(t, resp.body, query)
             IN  [outcome |-> "ok", query |-> query, calls |-> Append(calls, call),
                  result |-> IF t = "item" THEN NormalizeItem(data) ELSE data]

\* get_champion, get_mastery, get_rune, get_item, get_map, get_summoner_spell
get(t, q, realmResp, resp, flag, c) ==
    Bind(Validate(validate_get_query(t), q, realmResp), LAMBDA v :
    IF v.outcome # "ok" THEN v
    ELSE IF flag \/ Has(v.query, "name")
         THEN get_by_list(t, v.query, v.calls, resp, c)
         ELSE get_by_id(t, v.query, v.calls, resp, c))

(***************************************************************************)
(* get_versions, get_realms, get_language, get_language_strings,           *)
(* get_profile_icons: the operations with no list cache                    *)
(***************************************************************************)
PlainTypes == {"versions", "realm", "language", "language_strings", "profile_icons"}

\* _validate_get_versions_query, _validate_get_realms_query,
\* _validate_get_languages_query, _validate_get_language_strings_query,
\* _validate_get_profile_icons_query
validate_get_plain_query(t) ==
    IF t \in {"language_strings", "profile_icons"}
    THEN <<has("platform", "Platform"),
           can_have("version", "str"),
           can_have_default_fn("locale", "locale", "str")>>
    ELSE <<has("platform", "Platform")>>

\* params of the request of one of these operations
PlainParams(t, query) ==
    IF t \notin {"language_strings", "profile_icons"} THEN <<>>
    ELSE IF Has(query, "version")
    THEN <<(<<"locale", Item(query, "locale")>>),
           (<<"version", Item(query, "version")>>)>>
    ELSE <<(<<"locale", Item(query, "locale")>>)>>

\* one request, no cache: the payload wrapped with the region (versions,
\* languages) or stamped with the region (realms) and the locale (language
\* strings, profile icons)
get_plain(t, q, resp) ==
    Bind(Validate(validate_get_plain_query(t), q, RemoteFailure), LAMBDA v :
    IF v.outcome # "ok" THEN v
    ELSE
    Bind(v.query, LAMBDA query :
    Bind(Request(ListEndpoint(t), Item(query, "platform")[2], PyNone,
                 PlainParams(t, query)), LAMBDA call :
    Bind(region_value(Item(query, "platform")), LAMBDA region :
        IF resp.status # "ok"
        THEN RaisedByTransport(resp, query, <<call>>)
        ELSE [outcome |-> "ok", query |-> query, calls |-> <<call>>,
              result |->
                CASE t = "versions" -> [region |-> region, versions |-> resp.body]
                  [] t = "language" -> [region |-> region, languages |-> resp.body]
                  [] t = "realm" -> get_realms(query, resp).result
                  [] OTHER -> Put(Put(resp.body, "region", region),
                                  "locale", Item(query, "locale"))]))))

(***************************************************************************)
(* get_many_<type>: the generators over ids and over platforms             *)
(***************************************************************************)
NoGen == [kind |-> "none"]

\* params of the list request of a get_many by ids
ManyParams(t, query) ==
    LET base == <<(<<"locale", Item(query, "locale")>>),
                  (<<"tags", JoinTags(Item(query, "includedData"))>>)>>
        byid == IF t = "champion"
                THEN Append(base, <<"dataById", PyBool(TRUE)>>) ELSE base
    IN  IF Has(query, "version")
        THEN Append(byid, <<"version", Item(query, "version")>>) ELSE byid

\* the mutant of get_many that sends no request when no id is asked for
get_many_unless_empty(t, q, resp) ==
    LET v == Validate(validate_get_many_query(t), q, RemoteFailure) IN
    IF v.outcome # "ok" THEN v
    ELSE
    LET query == v.query
        call == Request(ListEndpoint(t), Item(query, "platform")[2], PyNone,
                        ManyParams(t, query))
        none == Item(query, "ids")[2] = <<>>
    IN  IF ~none /\ resp.status # "ok"
        THEN RaisedByTransport(resp, query, <<call>>)
        ELSE [outcome |-> "ok", query |-> query,
              calls |-> IF none THEN <<>> ELSE <<call>>,
              gen |-> [kind |-> "ids", t |-> t, query |-> query,
                       data |-> IF none THEN [version |-> PyStr("7.1"), data |-> <<>>]
                                ELSE resp.body,
                       pos |-> 1, done |-> FALSE, raised |-> "none"]]

\* the mutant of get_many that sends its request before it validates
get_many_fetch_first(t, q, resp) ==
    LET v == Validate(validate_get_many_query(t), q, RemoteFailure)
        early == Request(ListEndpoint(t), "NA1", PyNone, <<>>)
    IN
    IF v.outcome # "ok" THEN [v EXCEPT !.calls = <<early>>]
    ELSE
    LET query == v.query
        call == Request(ListEndpoint(t), Item(query, "platform")[2], PyNone,
                        ManyParams(t, query))
    IN  IF resp.status # "ok"
        THEN RaisedByTransport(resp, query, <<call>>)
        ELSE [outcome |-> "ok", query |-> query, calls |-> <<call>>,
              gen |-> [kind |-> "ids", t |-> t, query |-> query,
                       data |-> resp.body, pos |-> 1, done |-> FALSE,
                       raised |-> "none"]]

\* get_many_champion, get_many_mastery, get_many_rune, get_many_item,
\* get_many_summoner_spell: validation and the request run in the call, the
\* loop over the ids in the generator it returns.  raised records the
\* exception that left the generator's frame, if one did.
get_many(t, q, resp) ==
    LET v == Validate(validate_get_many_query(t), q, RemoteFailure) IN
    IF v.outcome # "ok" THEN v
    ELSE
    LET query == v.query
        call == Request(ListEndpoint(t), Item(query, "platform")[2], PyNone,
                        ManyParams(t, query))
    IN  IF resp.status # "ok"
        THEN RaisedByTransport(resp, query, <<call>>)
        ELSE [outcome |-> "ok", query |-> query, calls |-> <<call>>,
              gen |-> [kind |-> "ids", t |-> t, query |-> query,
                       data |-> resp.body, pos |-> 1, done |-> FALSE,
                       raised |-> "none"]]

\* the key the generator looks an id up with: str(id), but the id itself
\* for summoner spells
IdKey(t, id) == IF t = "summoner_spell" THEN id ELSE PyStrOf(id)

\* the mutant of Finished: a generator that can be resumed after it raised
FinishedNot(g) == g

\* a generator that has raised or returned is finished
Finished(g) == [g EXCEPT !.done = TRUE]

\* next() on the generator of a get_many by ids: one turn of
\* for id in query["ids"]
next_id(g) ==
    LET ids == Item(g.query, "ids")[2]
        region == region_value(Item(g.query, "platform"))
    IN  IF g.done \/ g.pos > Len(ids)
        THEN [outcome |-> "StopIteration", calls |-> <<>>, gen |-> Finished(g)]
        ELSE
        LET key == IdKey(g.t, ids[g.pos])
            items == g.data["data"]
        IN  IF ~Has(items, key)
            THEN \* except KeyError: raise NotFoundError(...)
                 [outcome |-> "NotFound", msg |-> "No such id", calls |-> <<>>,
                  gen |-> Finished([g EXCEPT !.raised = "NotFound"])]
            ELSE
            LET rec == Stamp(Item(items, key), region, g.data["version"],
                             Item(g.query, "locale"), Item(g.query, "includedData"))
                out == IF g.t = "item" THEN NormalizeItem(rec) ELSE rec
            IN  [outcome |-> "ok", calls |-> <<>>, result |-> out,
                 gen |-> [g EXCEPT !.pos = @ + 1,
                                   !.data = Put(@, "data", SetItem(items, key, out))]]

\* params of the list requests of a get_many of lists
ManyListParams(t, query) ==
    IF t \in {"realm", "language"} THEN <<>> ELSE
    LET base == IF t \in ManyTypes
                THEN <<(<<"tags", JoinTags(Item(query, "includedData"))>>)>>
                ELSE <<>>
        byid == IF t = "champion"
                THEN Append(base, <<"dataById", Item(query, "dataById")>>) ELSE base
        vers == IF Has(query, "version")
                THEN Append(byid, <<"version", Item(query, "version")>>) ELSE byid
    IN  IF Has(query, "locale")
        THEN Append(vers, <<"locale", Item(query, "locale")>>) ELSE vers

\* the mutant of get_many_list that sends the first request in the call
get_many_list_eager(t, q) ==
    LET v == Validate(validate_get_many_list_query(t), q, RemoteFailure) IN
    IF v.outcome # "ok" THEN v
    ELSE [outcome |-> "ok", query |-> v.query,
          calls |-> <<Request(ListEndpoint(t), "NA1", PyNone,
                              ManyListParams(t, v.query))>>,
          gen |-> [kind |-> "platforms", t |-> t, query |-> v.query,
                   params |-> ManyListParams(t, v.query), pos |-> 1, done |-> FALSE,
                   fetched |-> <<"NA1">>, raised |-> "none"]]

\* the mutant of get_many_list that validates in the generator: the call
\* hands the sequence back whatever the query
get_many_list_lazy(t, q) ==
    [outcome |-> "ok", query |-> q, calls |-> <<>>,
     gen |-> [kind |-> "platforms", t |-> t, query |-> q,
              params |-> <<>>, pos |-> 1, done |-> FALSE,
              fetched |-> <<>>, raised |-> "none"]]

\* get_many_champion_list, get_many_mastery_list, get_many_rune_list,
\* get_many_item_list, get_many_summoner_spell_list, get_many_realms,
\* get_many_language, get_many_language_strings, get_many_profile_icons:
\* validation and the params in the call, the requests in the generator it
\* returns.  fetched records the platforms the generator has sent a request
\* for, in the order of the requests, and raised the exception that left its
\* frame, if one did.
get_many_list(t, q) ==
    LET v == Validate(validate_get_many_list_query(t), q, RemoteFailure) IN
    IF v.outcome # "ok" THEN v
    ELSE [outcome |-> "ok", query |-> v.query, calls |-> <<>>,
          gen |-> [kind |-> "platforms", t |-> t, query |-> v.query,
                   params |-> ManyListParams(t, v.query), pos |-> 1, done |-> FALSE,
                   fetched |-> <<>>, raised |-> "none"]]

\* the mutant of StampPlatform that takes the default locale of the first
\* platform of the query for every platform
StampPlatformOfFirst(t, query, platform, body) ==
    LET first == PyPlatform(Item(query, "platforms")[2][1][2])
        locale == IF Has(query, "locale") THEN Item(query, "locale")
                  ELSE default_locale(first)
        a == Put(body, "region", region_value(platform))
        b == IF t = "realm" THEN a ELSE Put(a, "locale", locale)
        c == IF t \in ManyTypes THEN Put(b, "includedData", Item(query, "includedData"))
             ELSE b
    IN  IF t = "item" THEN Put(c, "data", MapRecords(c["data"], NormalizeItem)) ELSE c

\* what the generator over platforms assigns to the payload of a platform
StampPlatform(t, query, platform, body) ==
    LET locale == IF Has(query, "locale") THEN Item(query, "locale")
                  ELSE default_locale(platform)
        a == Put(body, "region", region_value(platform))
        b == IF t = "realm" THEN a ELSE Put(a, "locale", locale)
        c == IF t \in ManyTypes THEN Put(b, "includedData", Item(query, "includedData"))
             ELSE b
    IN  IF t = "item" THEN Put(c, "data", MapRecords(c["data"], NormalizeItem)) ELSE c

\* next() on the generator of a get_many of lists: one turn of
\* for platform in query["platforms"]
next_platform(g, resp) ==
    LET platforms == Item(g.query, "platforms")[2] IN
    IF g.done \/ g.pos > Len(platforms)
    THEN [outcome |-> "StopIteration", calls |-> <<>>, gen |-> Finished(g)]
    ELSE
    LET platform == PyPlatform(platforms[g.pos][2])
        call == Request(ListEndpoint(g.t), platform[2], PyNone, g.params)
        sent == [g EXCEPT !.fetched = Append(@, platform[2])]
        exc == IF resp.status = "404" THEN "NotFound" ELSE "TransportError"
    IN  IF resp.status # "ok"
        THEN [outcome |-> exc, msg |-> resp.msg, calls |-> <<call>>,
              gen |-> Finished([sent EXCEPT !.raised = exc])]
        ELSE IF g.t = "language"
        THEN \* data["region"] = ... on the list of languages the service
             \* answers with (the list get_language wraps in a dict)
             [outcome |-> "TypeError", msg |-> "list indices must be integers",
              calls |-> <<call>>,
              gen |-> Finished([sent EXCEPT !.raised = "TypeError"])]
        ELSE [outcome |-> "ok", calls |-> <<call>>,
              result |-> StampPlatform(g.t, g.query, platform, resp.body),
              gen |-> [sent EXCEPT !.pos = @ + 1]]

(***************************************************************************)
(* The inputs of the model: queries of the callers, answers of the service *)
(***************************************************************************)
\* the cache holds at most this many lists in a behaviour of the model
MaxEntries == 1
\* the calls of a behaviour of the model are about at most this many of the
\* entity types, the types of the cached lists included
MaxTypes == 1
\* a get_many names at most this many ids or platforms
MaxMany == 2

Opt(k, v) == IF v = "none" THEN <<>> ELSE <<(<<k, PyStr(v)>>)>>

\* platform, and optionally version and locale
BaseQueries ==
    {<<(<<"platform", PyPlatform(p)>>)>> \o Opt("version", v) \o Opt("locale", l) :
        p \in Platforms, v \in {"none", "7.1"}, l \in {"none", "fr_FR"}}

\* a query without its platform
NoPlatform == <<(<<"version", PyStr("7.1")>>)>>

ListQueries == BaseQueries \cup {NoPlatform}

\* the identity keys of a single get: id, name, both, none
Idents ==
    {<<(<<"id", PyInt(1)>>)>>, <<(<<"id", PyInt(3632)>>)>>,
     <<(<<"name", PyStr("Teemo")>>)>>, <<(<<"name", PyStr("Zed")>>)>>,
     <<(<<"id", PyInt(1)>>), (<<"name", PyStr("Teemo")>>)>>, <<>>}

\* a query by id with no version and a locale that is not a str
BadLocale ==
    <<(<<"id", PyInt(1)>>), (<<"platform", PyPlatform("NA1")>>),
      (<<"locale", PyInt(1)>>)>>

GetQueries == {i \o b : i \in Idents, b \in BaseQueries} \cup {BadLocale}

SeqsUpTo(S, n) == UNION {[1..k -> S] : k \in 0..n}

ManyQueries ==
    {<<(<<"ids", PyList(ids)>>)>> \o b :
        ids \in SeqsUpTo({PyInt(1), PyInt(3632)}, MaxMany), b \in BaseQueries}
    \cup {<<(<<"ids", PyInt(1)>>), (<<"platform", PyPlatform("NA1")>>)>>}

ManyListQueries ==
    {<<(<<"platforms", PyList(ps)>>)>> \o Opt("version", v) \o Opt("locale", l) :
        ps \in SeqsUpTo({PyStr(p) : p \in Platforms}, MaxMany),
        v \in {"none", "7.1"}, l \in {"none", "fr_FR"}}
    \cup {<<(<<"version", PyStr("7.1")>>)>>}

\* records as the service sends them; the second carries fields of its own
\* for region, version and locale
Teemo == [id |-> PyInt(1), name |-> PyStr("Teemo")]
Odd == [id |-> PyInt(3632), name |-> PyStr("Teemo"), region |-> PyStr("XX"),
        version |-> PyStr("0.0"), locale |-> PyStr("xx_XX"),
        depth |-> PyInt(3)]

ListBody(version, items) == [version |-> PyStr(version), data |-> items]
ListBodies ==
    {ListBody("7.1", <<(<<PyStr("1"), Teemo>>)>>),
     ListBody("7.2", <<(<<PyStr("3632"), Odd>>), (<<PyStr("1"), Teemo>>)>>)}

ListResponses == {Ok(b) : b \in ListBodies} \cup {RemoteNotFound, RemoteFailure}
\* the languages endpoint answers with a list of locales
Languages == PyList(<<PyStr("en_US"), PyStr("fr_FR")>>)
\* the versions endpoint answers with a list of versions
Versions == PyList(<<PyStr("7.2"), PyStr("7.1")>>)
\* the queries of the operations with no list cache: the ones that declare
\* only platform are asked with platform alone
PlainQueries(t) ==
    IF t \in {"language_strings", "profile_icons"} THEN ListQueries
    ELSE {<<(<<"platform", PyPlatform(p)>>)>> : p \in Platforms} \cup {NoPlatform}
SingleResponses == {Ok(Teemo), Ok(Odd), RemoteNotFound, RemoteFailure}
RealmResponses == {Ok([v |-> PyStr("7.1")]), Ok([v |-> PyStr("7.2")]), RemoteNotFound}

(***************************************************************************)
(* State                                                                   *)
(***************************************************************************)
\* cache: self._cache, for each list type a map from hash to list
\* gen:   the generator the caller holds, NoGen when it holds none
\* last:  the last call of the caller: what it passed and what came back
\* pending: the get_<type>_list calls of two threads that run at the same
\*        time, each with its position in the operation and its locals
VARIABLES cache, gen, last, pending
vars == <<cache, gen, last, pending>>

\* two callers of get_<type>_list on two threads
Threads == {1, 2}
\* a thread that is in no call
IdleCall ==
    [pc |-> "idle", t |-> "none", arg |-> <<>>, query |-> <<>>, hash |-> <<>>,
     calls |-> <<>>, answers |-> <<>>, outcome |-> "ok", result |-> NoResult,
     raced |-> FALSE, latest |-> FALSE]

\* the number of lists the cache holds
EntryCount(c) ==
    Cardinality(DOMAIN c["champion"]) + Cardinality(DOMAIN c["mastery"])
    + Cardinality(DOMAIN c["rune"]) + Cardinality(DOMAIN c["item"])
    + Cardinality(DOMAIN c["summoner_spell"]) + Cardinality(DOMAIN c["map"])

\* a call about type t keeps the behaviour within MaxTypes types
InPlay(c, t) ==
    Cardinality({u \in ListTypes : DOMAIN c[u] # {}} \cup {t}) <= MaxTypes

\* self._get: what the service answers to the requests of a call, the
\* request for the realm of a default version with realmResp and the
\* request of the operation itself with resp
Log(calls, realmResp, resp) ==
    [i \in 1..Len(calls) |-> IF calls[i].ep = "realms" THEN realmResp ELSE resp]

\* what the caller passed and what came back; answers are the answers of
\* the service to the requests in calls
Outcome(op, t, arg, flag, r, answers) ==
    [op |-> op, t |-> t, arg |-> arg, flag |-> flag, outcome |-> r.outcome,
     msg |-> r.msg, query |-> r.query, calls |-> r.calls, result |-> r.result,
     reads |-> r.reads, answers |-> answers, listq |-> r.listq]

\* the caller is between two calls
Idle ==
    [op |-> "idle", t |-> "none", arg |-> <<>>, flag |-> FALSE,
     outcome |-> "ok", msg |-> "", query |-> <<>>, calls |-> <<>>,
     result |-> NoResult, reads |-> 0, answers |-> <<>>, listq |-> <<>>]

\* StaticDataAPI.__init__: six empty caches
Init ==
    /\ cache = [t \in ListTypes |-> <<>>]
    /\ gen = NoGen
    /\ last = Idle
    /\ pending = [th \in Threads |-> IdleCall]

\* what a pull of a generator over platforms may get from the service
PlatformAnswers(t) ==
    CASE t = "realm" -> RealmResponses \cup {RemoteFailure}
      [] t = "language" -> {Ok(Languages), RemoteNotFound, RemoteFailure}
      [] OTHER -> ListResponses

\* what a call of an operation with no list cache may get from the service
PlainAnswers(t) ==
    IF t = "versions" THEN {Ok(Versions), RemoteNotFound, RemoteFailure}
    ELSE PlatformAnswers(t)

\* what a call may get from the service: the realm answer matters when the
\* query has no version, the other answer on the path the call takes
RealmAnswers(q) == IF Has(q, "version") THEN {RemoteFailure} ELSE RealmResponses
Answers(q, flag) ==
    IF flag \/ Has(q, "name") THEN ListResponses ELSE SingleResponses

\* a caller gets a list
GetList ==
    /\ last.op = "idle" /\ gen = NoGen
    /\ \E t \in ListTypes, q \in ListQueries, resp \in ListResponses :
        LET r == Full(get_list(t, q, resp, cache), cache) IN
        /\ InPlay(cache, t)
        /\ EntryCount(r.cache) <= MaxEntries
        /\ cache' = r.cache
        /\ last' = Outcome("get_list", t, q, FALSE, r, Log(r.calls, resp, resp))
        /\ UNCHANGED <<gen, pending>>

\* a caller gets one entity; the call reads settings.request_by_id
Get ==
    /\ last.op = "idle" /\ gen = NoGen
    /\ \E t \in ListTypes, q \in GetQueries, flag \in BOOLEAN :
        \E realmResp \in RealmAnswers(q), resp \in Answers(q, flag) :
            LET r == Full(get(t, q, realmResp, resp, flag, cache), cache) IN
            /\ InPlay(cache, t)
            /\ EntryCount(r.cache) <= MaxEntries
            /\ cache' = r.cache
            /\ last' = Outcome("get", t, q, flag, r, Log(r.calls, realmResp, resp))
            /\ UNCHANGED <<gen, pending>>

\* a caller gets the versions, the realm, the languages, the language
\* strings or the profile icons of a platform
GetPlain ==
    /\ last.op = "idle" /\ gen = NoGen
    /\ \E t \in PlainTypes : \E q \in PlainQueries(t), resp \in PlainAnswers(t) :
        LET r == get_plain(t, q, resp) IN
        /\ last' = Outcome("get_plain", t, q, FALSE, Full(r, cache),
                           Log(r.calls, resp, resp))
        /\ UNCHANGED <<cache, gen, pending>>

\* a caller asks for many entities by id
GetMany ==
    /\ last.op = "idle" /\ gen = NoGen
    /\ \E t \in ManyTypes, q \in ManyQueries, resp \in ListResponses :
        LET r == get_many(t, q, resp) IN
        /\ InPlay(cache, t)
        /\ gen' = IF r.outcome = "ok" THEN r.gen ELSE NoGen
        /\ last' = Outcome("get_many", t, q, FALSE, Full(r, cache),
                           Log(r.calls, resp, resp))
        /\ UNCHANGED <<cache, pending>>

\* a caller asks for the lists of many platforms
GetManyList ==
    /\ last.op = "idle" /\ gen = NoGen
    /\ \E t \in ManyPlatformTypes, q \in ManyListQueries :
        LET r == get_many_list(t, q) IN
        /\ InPlay(cache, t)
        /\ gen' = IF r.outcome = "ok" THEN r.gen ELSE NoGen
        /\ last' = Outcome("get_many_list", t, q, FALSE, Full(r, cache), <<>>)
        /\ UNCHANGED <<cache, pending>>

\* the caller pulls the next element of the generator over ids
NextId ==
    /\ last.op = "idle" /\ gen.kind = "ids"
    /\ LET r == next_id(gen) IN
       /\ gen' = r.gen
       /\ last' = Outcome("next", gen.t, <<>>, FALSE,
                          Full(r @@ [query |-> gen.query], cache), <<>>)
       /\ UNCHANGED <<cache, pending>>

\* the caller pulls the next element of the generator over platforms
NextPlatform ==
    /\ last.op = "idle" /\ gen.kind = "platforms"
    /\ \E resp \in PlatformAnswers(gen.t) :
        LET r == next_platform(gen, resp) IN
        /\ gen' = r.gen
        /\ last' = Outcome("next", gen.t, <<>>, FALSE,
                           Full(r @@ [query |-> gen.query], cache),
                           Log(r.calls, resp, resp))
        /\ UNCHANGED <<cache, pending>>

\* the caller lets go of the generator it holds
Drop ==
    /\ last.op = "idle" /\ gen # NoGen
    /\ gen' = NoGen
    /\ UNCHANGED <<cache, last, pending>>

\* the caller has taken what the call gave it and is ready for the next
Return ==
    /\ last.op # "idle"
    /\ last' = Idle
    /\ UNCHANGED <<cache, gen, pending>>

Next ==
    \/ GetList \/ Get \/ GetPlain \/ GetMany \/ GetManyList
    \/ NextId \/ NextPlatform \/ Drop \/ Return

Spec == Init /\ [][Next]_vars

\* The generators on their own. No get_many reads or writes self._cache and
\* no list or single get touches a generator, so the calls and pulls of the
\* generators behave here as they do among the other calls.
ManySpec ==
    Init /\ [][GetMany \/ GetManyList \/ NextId \/ NextPlatform \/ Drop \/ Return]_vars

\* The single gets on their own: the lists the cache holds here were all
\* stored by the list operation a single get called.
GetSpec == Init /\ [][Get \/ Return]_vars

(***************************************************************************)
(* calculate_hash on its own: the hashes of two queries of a list type     *)
(***************************************************************************)
\* a query of HashSpec has at most this many keys
MaxKeys == 3

\* "versions" is a key no schema declares
HashItems ==
    {<<"platform", PyPlatform("NA1")>>, <<"version", PyStr("7.1")>>,
     <<"locale", PyStr("fr_FR")>>, <<"includedData", PySet({"stats"})>>,
     <<"versions", PyStr("7.1")>>}

\* dicts: no key twice
HashQueries ==
    {q \in SeqsUpTo(HashItems, MaxKeys) :
        \A i, j \in 1..Len(q) : q[i][1] = q[j][1] => i = j}

Items(d) == {d[i] : i \in 1..Len(d)}

\* a list operation up to its cache lookup: validation, then calculate_hash
ListHash(t, q) ==
    LET v == Validate(validate_get_list_query(t), q, RemoteFailure)
    IN  [outcome |-> v.outcome, query |-> v.query,
         params |-> IF v.outcome = "ok" THEN ListParams(t, v.query) ELSE <<>>,
         ahash |-> IF v.outcome = "ok" THEN calculate_hash(v.query) ELSE <<>>]

\* two callers' queries of one list type are hashed
CalculateHash ==
    /\ last.op = "idle"
    /\ \E t \in ListTypes, q1 \in HashQueries, q2 \in HashQueries :
        /\ last' = [op |-> "calculate_hash", t |-> t, q1 |-> q1, q2 |-> q2,
                    h1 |-> calculate_hash(q1), h2 |-> calculate_hash(q2),
                    l1 |-> ListHash(t, q1), l2 |-> ListHash(t, q2)]
        /\ UNCHANGED <<cache, gen, pending>>

HashSpec == Init /\ [][CalculateHash \/ Return]_vars

(***************************************************************************)
(* get_<type>_list on two threads: the operation in its three steps, the   *)
(* lookup, the request and the store, with the other thread's steps        *)
(* between them                                                            *)
(***************************************************************************)
\* the types and queries of the calls that run at the same time
RaceTypes == {"champion", "mastery"}
RaceQueries ==
    {<<(<<"platform", PyPlatform("NA1")>>)>> \o Opt("version", v) : v \in {"none", "7.1"}}

\* the caches with no list of type t under ahash
Without(c, t, ahash) ==
    [c EXCEPT ![t] = [h \in (DOMAIN c[t]) \ {ahash} |-> c[t][h]]]

\* get_<type>_list up to the cache lookup: validation, calculate_hash and
\* try: return self._cache[ListDto][ahash]
list_begin(t, q, c) ==
    Bind(Validate(validate_get_list_query(t), q, RemoteFailure), LAMBDA v :
    IF v.outcome # "ok"
    THEN [IdleCall EXCEPT !.pc = "done", !.t = t, !.arg = q,
                          !.outcome = v.outcome]
    ELSE Bind(calculate_hash(v.query), LAMBDA ahash :
         IF CacheLookup(c, t, ahash)
         THEN [IdleCall EXCEPT !.pc = "done", !.t = t, !.arg = q,
                               !.query = v.query, !.hash = ahash,
                               !.result = c[t][ahash]]
         ELSE [IdleCall EXCEPT !.pc = "missed", !.t = t, !.arg = q,
                               !.query = v.query, !.hash = ahash]))

\* get_<type>_list from the miss to the answer: params, url and self._get
list_fetch(p, resp) ==
    [p EXCEPT !.pc = "fetched",
              !.calls = <<Request(ListEndpoint(p.t), Item(p.query, "platform")[2],
                                  PyNone, ListParams(p.t, p.query))>>,
              !.answers = <<resp>>]

\* get_<type>_list from the answer to the return: the rest of the operation
\* as a call that missed runs it, and its store into the caches as they are
\* now
list_finish(p, c) ==
    Bind(Full(get_list(p.t, p.arg, p.answers[1], Without(c, p.t, p.hash)), c),
         LAMBDA r :
         IF r.outcome = "ok"
         THEN [r EXCEPT !.cache = CacheStore(c, p.t, p.hash, r.result)]
         ELSE r)

\* a thread calls get_<type>_list and gets as far as the cache lookup
ListBegin(th) ==
    /\ pending[th].pc = "idle"
    /\ \E t \in RaceTypes, q \in RaceQueries :
        Bind(list_begin(t, q, cache), LAMBDA p :
        LET inflight == {o \in Threads \ {th} :
                            /\ pending[o].pc \in {"missed", "fetched"}
                            /\ pending[o].t = t /\ pending[o].hash = p.hash}
        IN  /\ InPlay(cache, t)
            /\ \A o \in Threads : pending[o].t \in {"none", t}
            /\ pending' =
                 [o \in Threads |->
                    IF o = th THEN [p EXCEPT !.raced = (p.pc = "missed" /\ inflight # {})]
                    ELSE IF p.pc = "missed" /\ o \in inflight
                    THEN [pending[o] EXCEPT !.raced = TRUE]
                    ELSE pending[o]])
    /\ UNCHANGED <<cache, gen, last>>

\* a thread that missed sends its request and gets the answer
ListFetch(th) ==
    /\ pending[th].pc = "missed"
    /\ \E resp \in ListResponses :
        pending' = [pending EXCEPT ![th] = list_fetch(@, resp)]
    /\ UNCHANGED <<cache, gen, last>>

\* a thread that has its answer stamps the list, stores it and returns it,
\* or raises
ListStore(th) ==
    /\ pending[th].pc = "fetched"
    /\ Bind(list_finish(pending[th], cache), LAMBDA r :
        /\ EntryCount(r.cache) <= MaxEntries
        /\ cache' = r.cache
        /\ pending' =
             [o \in Threads |->
                IF o = th
                THEN [pending[th] EXCEPT !.pc = "done", !.outcome = r.outcome,
                                         !.result = r.result,
                                         !.latest = (r.outcome = "ok")]
                ELSE IF r.outcome = "ok" /\ pending[o].t = pending[th].t
                                        /\ pending[o].hash = pending[th].hash
                THEN [pending[o] EXCEPT !.latest = FALSE]
                ELSE pending[o]])
    /\ UNCHANGED <<gen, last>>

\* a thread has taken what its call gave it
ListReturn(th) ==
    /\ pending[th].pc = "done"
    /\ pending' = [pending EXCEPT ![th] = IdleCall]
    /\ UNCHANGED <<cache, gen, last>>

RaceSpec ==
    Init /\ [][\E th \in Threads :
                 ListBegin(th) \/ ListFetch(th) \/ ListStore(th) \/ ListReturn(th)]_vars

(***************************************************************************)
(* Properties                                                              *)
(***************************************************************************)
\* the list operation of the last call looked its hash up and fetched
ListMiss == last.op = "get_list" /\ last.reads = 1 /\ Len(last.calls) = 1
\* the fetch of the last call was answered with a payload
Fetched == last.outcome \notin {"NotFound", "TransportError"}
QueryRegion(q) == region_value(Item(q, "platform"))

\* C1: a list call whose hash is in the cache of its type when it is made
\* returns the record the cache holds, makes no request and leaves the cache
\* as it is, whatever the service would answer.
C1_CachedListIsReturnedWithoutRequest ==
    [][(/\ last'.op = "get_list"
        /\ last'.outcome # "InvalidQuery"
        /\ calculate_hash(last'.query) \in DOMAIN cache[last'.t])
       => (/\ last'.outcome = "ok"
           /\ last'.calls = <<>>
           /\ last'.result = cache[last'.t][calculate_hash(last'.query)]
           /\ cache' = cache)]_vars

\* a list call was answered from the cache
C1_Witness ==
    /\ last.op = "get_list" /\ last.outcome = "ok"
    /\ last.reads = 1 /\ last.calls = <<>>
    /\ last.result = cache[last.t][calculate_hash(last.query)]

\* C2: a list call of any type that misses the cache and whose request is
\* answered with a list of records ends with the list stored under the hash
\* of its query and returned.
C2_MissStoresAndReturnsTheList ==
    (ListMiss /\ Fetched)
    => (/\ last.outcome = "ok"
        /\ calculate_hash(last.query) \in DOMAIN cache[last.t]
        /\ cache[last.t][calculate_hash(last.query)] = last.result)

\* C3: an id missing from the fetched map fails its own element only and the
\* ids after it are still yielded: the generator over ids does not end
\* (StopIteration) at an id that is missing from the map while requested ids
\* are left after it.
C3_MissingIdDoesNotEndTheSequence ==
    LET ids == Item(gen.query, "ids")[2] IN
    (/\ last.op = "next" /\ gen.kind = "ids" /\ last.outcome = "StopIteration"
     /\ gen.pos < Len(ids))
    => Has(gen.data["data"], PyStrOf(ids[gen.pos]))

\* C4 as claimed: the call of a get_many, by ids or by platforms, makes no
\* request.
C4_NoRequestInAnyGetManyCall ==
    last.op \in {"get_many", "get_many_list"} => last.calls = <<>>

\* C4: the call of a get_many of lists makes no request and each element
\* pulled makes one; the call of a get_many by ids makes its one request
\* itself and pulling its elements makes none.
C4_RequestsOfGetMany ==
    /\ last.op = "get_many_list" => last.calls = <<>>
    /\ (last.op = "next" /\ gen.kind = "platforms" /\ last.outcome # "StopIteration")
       => Len(last.calls) = 1
    /\ (last.op = "get_many" /\ last.outcome # "InvalidQuery")
       => Len(last.calls) = 1
    /\ (last.op = "next" /\ gen.kind = "ids") => last.calls = <<>>

\* the second list of a get_many of lists has been pulled
C4_Witness ==
    /\ last.op = "next" /\ gen.kind = "platforms" /\ last.outcome = "ok"
    /\ gen.pos = 3 /\ Len(last.calls) = 1

\* C5: a single get whose query has both id and name fails with InvalidQuery
\* with no request made and no list cache read.
C5_IdAndNameIsInvalid ==
    (last.op = "get" /\ Has(last.arg, "id") /\ Has(last.arg, "name"))
    => (last.outcome = "InvalidQuery" /\ last.calls = <<>> /\ last.reads = 0)

\* a single get with both id and name has failed
C5_Witness ==
    /\ last.op = "get" /\ Has(last.arg, "id") /\ Has(last.arg, "name")
    /\ last.outcome = "InvalidQuery"

\* region, version and locale of a record are those of the query
StampedFrom(rec, q) ==
    /\ HasField(rec, "region") /\ rec["region"] = QueryRegion(q)
    /\ HasField(rec, "locale") /\ rec["locale"] = Item(q, "locale")
    /\ Has(q, "version") => (HasField(rec, "version") /\ rec["version"] = Item(q, "version"))

\* C6: the record of a single get, every record of a list of a list call and
\* every record a get_many by ids yields has the region, version and locale
\* of the query, whatever the payload carried.
C6_RecordsCarryTheQuerysContext ==
    /\ (last.op = "get" /\ last.outcome = "ok" /\ last.result # NoResult)
       => StampedFrom(last.result, last.query)
    /\ (last.op = "get_list" /\ last.outcome = "ok")
       => \A i \in 1..Len(last.result["data"]) :
              StampedFrom(last.result["data"][i][2], last.query)
    /\ (last.op = "next" /\ gen.kind = "ids" /\ last.outcome = "ok")
       => StampedFrom(last.result, last.query)

\* C7: a single get with a valid query, whose requests are answered, returns
\* a record or fails with NotFound.
C7_GetReturnsARecordOrNotFound ==
    (last.op = "get" /\ last.outcome \notin {"InvalidQuery", "TransportError"})
    => \/ last.outcome = "ok" /\ last.result # NoResult
       \/ last.outcome = "NotFound"

\* C8: the list a list call fetched, stored and returned has every record
\* stamped with region, version and locale of the query.
C8_FetchedRecordsAreStamped ==
    (ListMiss /\ last.outcome = "ok")
    => \A i \in 1..Len(last.result["data"]) :
           LET rec == last.result["data"][i][2] IN
           /\ HasField(rec, "region") /\ rec["region"] = QueryRegion(last.query)
           /\ HasField(rec, "locale") /\ rec["locale"] = Item(last.query, "locale")
           /\ HasField(rec, "version")

\* C9: two queries with the same items, inserted in whatever order, have the
\* same hash.
C9_HashIgnoresInsertionOrder ==
    (last.op = "calculate_hash" /\ Items(last.q1) = Items(last.q2))
    => last.h1 = last.h2

\* two queries of three items in different orders have been hashed
C9_Witness ==
    /\ last.op = "calculate_hash" /\ Items(last.q1) = Items(last.q2)
    /\ Len(last.q1) = 3 /\ last.q1 # last.q2 /\ last.h1 = last.h2

\* C10: two valid queries of a list type have the same hash exactly when
\* they have the same items.
C10_HashIdentifiesTheQuery ==
    (/\ last.op = "calculate_hash"
     /\ last.l1.outcome = "ok" /\ last.l2.outcome = "ok")
    => (last.l1.ahash = last.l2.ahash
        <=> Items(last.l1.query) = Items(last.l2.query))

\* C11: a cache entry is never mutated after insertion: a list held under a
\* hash has, after any call, the field values it had before the call, and so
\* has every record it contains.
C11_CacheEntriesAreNeverMutated ==
    [][\A t \in ListTypes : \A h \in DOMAIN cache[t] :
          h \in DOMAIN cache'[t] => cache'[t][h] = cache[t][h]]_vars

\* the fields a single get assigns to the record it found
StampedFields == {"region", "version", "locale", "includedData"}

\* b is the list a, with at most the stamped fields of its records changed
SameBinding(a, b) ==
    /\ DOMAIN a = DOMAIN b
    /\ \A f \in DOMAIN a \ {"data"} : a[f] = b[f]
    /\ Len(a["data"]) = Len(b["data"])
    /\ \A i \in 1..Len(a["data"]) :
          LET ra == a["data"][i][2]
              rb == b["data"][i][2]
          IN  /\ a["data"][i][1] = b["data"][i][1]
              /\ DOMAIN ra \ StampedFields = DOMAIN rb \ StampedFields
              /\ \A f \in DOMAIN ra \ StampedFields : ra[f] = rb[f]

\* C12: no call removes a hash from a list cache, and no call binds a hash
\* the cache holds to another list: the list under it changes only when a
\* single get stamps a record of that same list.
C12_NoEvictionNoRebinding ==
    [][\A t \in ListTypes :
          /\ DOMAIN cache[t] \subseteq DOMAIN cache'[t]
          /\ \A h \in DOMAIN cache[t] :
                cache'[t][h] # cache[t][h]
                => (last'.op = "get" /\ SameBinding(cache[t][h], cache'[t][h]))]_vars

\* a single get was answered from a list the cache held and the cache
\* still holds a list
C12_Witness ==
    /\ last.op = "get" /\ last.outcome = "ok" /\ last.reads = 1
    /\ \A i \in 1..Len(last.calls) : last.calls[i].ep = "realms"
    /\ DOMAIN cache[last.t] # {}

\* the last call is a single get whose validation has finished
ValidGet ==
    /\ last.op = "get" /\ last.outcome # "InvalidQuery"
    /\ Has(last.query, "version") /\ Has(last.query, "locale")
\* the last call went through the list operation of its type
ListPath == last.reads = 1
\* the last call sent the request for one entity
DirectPath == \E i \in 1..Len(last.calls) : last.calls[i].id # PyNone

\* C13: a valid single get takes the list-and-filter path exactly when the
\* flag is on or the query has a name, the request for one entity exactly
\* when the flag is off and the query has an id and no name, and never both.
C13_PathIsChosenByFlagAndQuery ==
    ValidGet
    => /\ ListPath <=> (last.flag \/ Has(last.query, "name"))
       /\ DirectPath <=> (/\ ~last.flag /\ Has(last.query, "id")
                          /\ ~Has(last.query, "name"))
       /\ ~(ListPath /\ DirectPath)

\* the hash the list operation computes for the list query of the last get
GetListHash ==
    calculate_hash(Validate(validate_get_list_query(last.t),
                            Pop(Pop(last.query, "id"), "name"), RemoteFailure).query)
\* the last get went through the list operation and got its list, which the
\* cache holds
GotList == ValidGet /\ ListPath /\ GetListHash \in DOMAIN cache[last.t]
\* the attribute the last get looks for
GetAttr == IF Has(last.query, "id") THEN "id" ELSE "name"
\* the positions of the records of the list whose attribute is the one asked
Matches ==
    LET items == cache[last.t][GetListHash]["data"] IN
    {i \in 1..Len(items) :
        GetField(items[i][2], GetAttr) = Item(last.query, GetAttr)}

\* C14: on the list-and-filter path, when no record of the list has the id
\* (or the name) asked for, the get fails with NotFound and returns nothing.
C14_NoMatchIsNotFound ==
    (GotList /\ Matches = {})
    => (last.outcome = "NotFound" /\ last.result = NoResult)

\* a get found no record with the name it asked for in a list of records
C14_Witness ==
    /\ GotList /\ Matches = {} /\ last.outcome = "NotFound"
    /\ cache[last.t][GetListHash]["data"] # <<>>

\* the first position of the list whose record has the attribute asked for
FirstMatch == CHOOSE i \in Matches : \A j \in Matches : i <= j

\* C15: on the list-and-filter path with a query by name, the record
\* returned is the first record of the list, in its order, whose name is the
\* one asked for, with region, version, locale and includedData of the query.
C15_FirstMatchByNameStamped ==
    (GotList /\ Has(last.query, "name") /\ Matches # {})
    => /\ last.outcome = "ok"
       /\ last.result = cache[last.t][GetListHash]["data"][FirstMatch][2]
       /\ last.result["name"] = Item(last.query, "name")
       /\ last.result["region"] = QueryRegion(last.query)
       /\ last.result["version"] = Item(last.query, "version")
       /\ last.result["locale"] = Item(last.query, "locale")
       /\ Has(last.query, "includedData")
          => last.result["includedData"] = Item(last.query, "includedData")

\* a get by name returned the first of two records of that name, with the
\* region of the query in the place of the region the payload carried
C15_Witness ==
    /\ GotList /\ Has(last.query, "name") /\ Cardinality(Matches) = 2
    /\ last.outcome = "ok" /\ last.result["id"] = PyInt(3632)
    /\ last.result["region"] = QueryRegion(last.query)

\* the ids the generator was asked for and the map it fetched
GenIds == Item(gen.query, "ids")[2]
GenMap == gen.data["data"]
\* the id at position j is missing from the fetched map, which the service
\* keys by the text of the id
MissingAt(j) == ~Has(GenMap, PyStrOf(GenIds[j]))
\* the last call pulled an element of a generator over ids
PulledId == last.op = "next" /\ gen.kind = "ids"

\* C16: the elements of a get_many by ids come in the order of the ids: a
\* pull that yields a record yields the record of the id at its position,
\* no id before it being missing; a pull fails with NotFound at the first
\* missing id; with no id missing the sequence ends after the last id.
C16_ElementsInIdOrder ==
    PulledId
    => /\ last.outcome = "ok"
          => /\ \A j \in 1..(gen.pos - 1) : ~MissingAt(j)
             /\ last.result = Item(GenMap, PyStrOf(GenIds[gen.pos - 1]))
             /\ last.result["id"] = GenIds[gen.pos - 1]
       /\ last.outcome = "NotFound"
          => /\ gen.pos <= Len(GenIds) /\ MissingAt(gen.pos)
             /\ \A j \in 1..(gen.pos - 1) : ~MissingAt(j)
       /\ (last.outcome = "StopIteration" /\ \A j \in 1..Len(GenIds) : ~MissingAt(j))
          => gen.pos = Len(GenIds) + 1

\* C17: in a get_many by ids of any type, an id whose text is a key of the
\* fetched map gives the record under that key and not a NotFound failure.
C17_PresentIdGivesItsRecord ==
    PulledId
    => /\ last.outcome = "NotFound" => MissingAt(gen.pos)
       /\ last.outcome = "ok"
          => last.result = Item(GenMap, PyStrOf(GenIds[gen.pos - 1]))
GenPlatforms == Item(gen.query, "platforms")[2]
PulledPlatform == last.op = "next" /\ gen.kind = "platforms"
\* the pull sent its request and the service answered it with a payload
Answered == last.outcome \notin {"StopIteration", "NotFound", "TransportError"}

\* C18: in a get_many over platforms the i-th pull sends exactly one request,
\* for the i-th platform of the query, and yields that platform's result:
\* the requests sent so far are the first platforms of the query in their
\* order, none is sent by the call itself, and after k successful pulls
\* exactly k have been sent.
C18_PullFetchesAndYieldsItsPlatform ==
    gen.kind = "platforms" =>
    /\ Len(gen.fetched) <= Len(GenPlatforms)
    /\ \A i \in 1..Len(gen.fetched) :
           gen.fetched[i] = PyPlatform(GenPlatforms[i][2])[2]
    /\ last.op = "get_many_list" => gen.fetched = <<>>
    /\ (PulledPlatform /\ Answered) =>
           /\ last.outcome = "ok"
           /\ Len(gen.fetched) = gen.pos - 1
           /\ Len(last.calls) = 1
           /\ last.calls[1].platform = PyPlatform(GenPlatforms[gen.pos - 1][2])[2]
           /\ last.result["region"]
                = region_value(PyPlatform(GenPlatforms[gen.pos - 1][2]))

\* C19: in a get_many over platforms a NotFound of one platform is isolated,
\* the platforms after it are still fetched and yielded: a generator that
\* raised NotFound for a platform does not end (StopIteration) while
\* platforms of the query are left after that platform.
C19_NotFoundDoesNotEndTheSequence ==
    (PulledPlatform /\ gen.raised = "NotFound" /\ last.outcome = "StopIteration")
    => gen.pos >= Len(GenPlatforms)

\* the ids or the platforms the generator held goes over
GenInputs == IF gen.kind = "ids" THEN GenIds ELSE GenPlatforms
\* the generator held has yielded an element for every input or has raised
Spent ==
    /\ gen.kind \in {"ids", "platforms"}
    /\ (gen.raised # "none" \/ gen.pos > Len(GenInputs))
\* this step is a pull of the generator held
Pull == last.op = "idle" /\ last'.op = "next"

\* C20: a get_many generator is finite and cannot be restarted: a pull that
\* yields an element moves to the next input, so at most one element is
\* yielded per id or platform, and a pull of a generator that is exhausted
\* or has raised yields nothing, sends no request and leaves it so.
C20_FiniteAndNotRestartable ==
    [][/\ (Pull /\ last'.outcome = "ok")
          => (gen.pos <= Len(GenInputs) /\ gen'.pos = gen.pos + 1)
       /\ (Pull /\ Spent)
          => /\ last'.outcome = "StopIteration"
             /\ last'.calls = <<>> /\ last'.result = NoResult
             /\ gen'.pos = gen.pos /\ gen'.raised = gen.raised]_vars

\* a generator over two platforms that raised at the first has been pulled
\* again
C20_Witness ==
    /\ last.op = "next" /\ last.outcome = "StopIteration" /\ last.calls = <<>>
    /\ gen.kind = "platforms" /\ gen.raised # "none" /\ gen.pos < Len(GenPlatforms)

\* this step is a call of an operation (not a pull, not the return)
Call == last.op = "idle" /\ last'.op \notin {"idle", "next"}

\* C21: a get, get of a list or get_many that fails with InvalidQuery has
\* sent no request, the request for the realm of the default version
\* included, has read no list cache and has left the caches as they were.
C21_InvalidQueryBeforeAnyEffect ==
    [][(Call /\ last'.outcome = "InvalidQuery")
       => (last'.calls = <<>> /\ last'.reads = 0 /\ cache' = cache
           /\ gen' = gen)]_vars

\* a single get with no version, whose default is the realm's, has failed on
\* the type of a field declared after version
C21_Witness ==
    /\ last.op = "get" /\ last.outcome = "InvalidQuery"
    /\ ~Has(last.arg, "version") /\ Has(last.arg, "locale")
    /\ ~IsStr(Item(last.arg, "locale"))

\* the last call returned a list (a get of a list, a pull of a get_many of
\* lists)
ReturnedList ==
    \/ last.op = "get_list"
    \/ last.op = "next" /\ gen.kind = "platforms"
\* the item records in what the last call returned
ItemRecords ==
    IF last.t # "item" \/ last.result = NoResult THEN {}
    ELSE IF ReturnedList
    THEN {last.result["data"][i][2] : i \in 1..Len(last.result["data"])}
    ELSE {last.result}

\* C22: on every path that returns item records (get by id, get through the
\* list, get of the list, get_many by ids, get_many of lists) a record
\* whose id is 3632 has the empty name, whatever name the payload had.
C22_Item3632HasNoName ==
    \A r \in ItemRecords : r["id"] = PyInt(3632) => r["name"] = PyStr("")

\* a get that went through the list has returned item 3632, which the
\* service sends with a name
C22_Witness ==
    /\ last.op = "get" /\ last.reads = 1 /\ Odd["name"] # PyStr("")
    /\ \E r \in ItemRecords : r["id"] = PyInt(3632)

\* the record of the payload a returned record was made from
RawOf(r) == IF r["id"] = Odd["id"] THEN Odd ELSE Teemo
\* the fields of an item that have a default, and the default
ItemDefaults ==
    [tags |-> PyList(<<>>), depth |-> PyInt(1), colloq |-> PyStr(""),
     plaintext |-> PyStr("")]

\* C23: on every path that returns item records, tags, depth, colloq and
\* plaintext are in the record: with the payload's value where the payload
\* has the field, with the default ([], 1, "", "") where it has not.
C23_ItemFieldsDefaulted ==
    \A r \in ItemRecords : \A f \in DOMAIN ItemDefaults :
        /\ HasField(r, f)
        /\ r[f] = IF HasField(RawOf(r), f) THEN RawOf(r)[f] ELSE ItemDefaults[f]

\* a get_many of item lists has yielded a list with a record whose payload
\* has a depth and no tags
C23_Witness ==
    /\ last.op = "next" /\ gen.kind = "platforms"
    /\ \E r \in ItemRecords :
          /\ HasField(RawOf(r), "depth") /\ RawOf(r)["depth"] # ItemDefaults["depth"]
          /\ ~HasField(RawOf(r), "tags")

\* C24: when the transport answers a request of an operation with
\* APINotFoundError the operation fails with NotFound and that error's
\* message; any other failure of the transport reaches the caller as it is,
\* with its message; and the failed request is the last of the call.
C24_TransportFailuresAtTheCaller ==
    \A i \in 1..Len(last.answers) :
        LET a == last.answers[i] IN
        /\ a.status = "404" =>
              (last.outcome = "NotFound" /\ last.msg = a.msg /\ i = Len(last.answers))
        /\ a.status = "error" =>
              (last.outcome = "TransportError" /\ last.msg = a.msg
               /\ i = Len(last.answers))

\* a get of a list whose request was answered with APINotFoundError
C24_Witness ==
    /\ last.op = "get_list" /\ last.answers = <<RemoteNotFound>>
    /\ last.outcome = "NotFound" /\ last.msg = RemoteNotFound.msg

\* two calls with the same type and hash ran at the same time, both missed
\* before either stored, and both have stored and returned their list
RaceEnded(a, b) ==
    /\ a # b
    /\ pending[a].pc = "done" /\ pending[b].pc = "done"
    /\ pending[a].raced /\ pending[b].raced
    /\ pending[a].t = pending[b].t /\ pending[a].hash = pending[b].hash
    /\ pending[a].outcome = "ok" /\ pending[b].outcome = "ok"

\* C25: of two get_<type>_list calls of one type and hash that both miss
\* before either stores, each sends its own request; when both have stored
\* the cache has the hash, with the list of the call that stored last; and
\* a call that finds the hash in the cache returns the list held under it.
C25_RaceEndsWithLastStoredList ==
    /\ [](\A a, b \in Threads : RaceEnded(a, b) =>
            /\ Len(pending[a].calls) = 1 /\ Len(pending[b].calls) = 1
            /\ pending[a].hash \in DOMAIN cache[pending[a].t]
            /\ \E w \in {a, b} :
                  /\ pending[w].latest
                  /\ cache[pending[a].t][pending[a].hash] = pending[w].result)
    /\ [][\A th \in Threads :
            (/\ pending[th].pc = "idle" /\ pending'[th].pc = "done"
             /\ pending'[th].outcome = "ok")
            => /\ pending'[th].hash \in DOMAIN cache[pending'[th].t]
               /\ pending'[th].result = cache[pending'[th].t][pending'[th].hash]
               /\ pending'[th].calls = <<>>]_vars

\* two calls that raced have both stored, the second a list that differs
\* from the first's
C25_Witness ==
    \E a, b \in Threads :
        /\ RaceEnded(a, b) /\ pending[b].latest
        /\ pending[a].result # pending[b].result

\* the last call was an operation on one platform
SinglePlatformCall == last.op \in {"get", "get_list", "get_many"}
\* the requests of the last call for the realm of a default version
RealmCalls == {i \in 1..Len(last.calls) : last.calls[i].ep = "realms"}
\* the last call got through validation: the query was valid and the realm,
\* if it was asked for, was answered
Validated ==
    /\ last.outcome # "InvalidQuery"
    /\ \A i \in RealmCalls : last.answers[i].status = "ok"

\* C26: in an operation on one platform whose query has no locale the locale
\* is the default locale of the query's platform, in the query, in the
\* request and in what is returned; no request is sent to resolve it (the
\* only request besides the operation's own is the one for the realm of an
\* absent version).
C26_DefaultLocaleOfThePlatform ==
    (SinglePlatformCall /\ Validated /\ ~Has(last.arg, "locale")) =>
        LET locale == default_locale(Item(last.arg, "platform")) IN
        /\ Has(last.query, "locale") /\ Item(last.query, "locale") = locale
        /\ RealmCalls # {} => (last.op = "get" /\ ~Has(last.arg, "version"))
        /\ Len(last.calls) <= Cardinality(RealmCalls) + 1
        /\ \A i \in (1..Len(last.calls)) \ RealmCalls :
               Item(last.calls[i].params, "locale") = locale
        /\ (last.op \in {"get", "get_list"} /\ last.result # NoResult)
               => last.result["locale"] = locale

\* a get with its version and no locale, on the platform whose default
\* locale is not en_US, has returned a record after its one request
C26_Witness ==
    /\ last.op = "get" /\ last.outcome = "ok" /\ last.result # NoResult
    /\ ~Has(last.arg, "locale") /\ Has(last.arg, "version")
    /\ Item(last.arg, "platform") = PyPlatform("EUW1")
    /\ Len(last.calls) = 1

\* the requests of the last call that are the operation's own
OwnCalls == (1..Len(last.calls)) \ RealmCalls
\* the last call, a single get, used version v: in the validated query, in
\* its own request and on the record returned
UsesVersion(v) ==
    /\ Has(last.query, "version") /\ Item(last.query, "version") = v
    /\ \A i \in OwnCalls : Item(last.calls[i].params, "version") = v
    /\ last.result # NoResult => last.result["version"] = v

\* C27: a single get whose query has a version sends no request for the
\* realm and uses that version; a single get whose query has none sends
\* exactly one request for the realm, for the query's platform and before
\* any other, and uses the version the realm reports.
C27_DefaultVersionOnlyWhenAbsent ==
    (last.op = "get" /\ last.outcome # "InvalidQuery") =>
        IF Has(last.arg, "version")
        THEN RealmCalls = {} /\ UsesVersion(Item(last.arg, "version"))
        ELSE /\ RealmCalls = {1}
             /\ last.calls[1].platform = Item(last.arg, "platform")[2]
             /\ last.answers[1].status = "ok"
                   => UsesVersion(last.answers[1].body["v"])

\* a get without version has returned a record with the version of the
\* realm, which is not the version of the list or record the service sent
C27_Witness ==
    /\ last.op = "get" /\ ~Has(last.arg, "version") /\ last.outcome = "ok"
    /\ last.result # NoResult /\ Len(last.calls) = 2
    /\ last.result["version"] = PyStr("7.2")
    /\ last.answers[1].body["v"] = PyStr("7.2")

\* C28: a single get whose query has neither id nor name fails with
\* InvalidQuery in validation, with no request and no cache read, so that
\* no call ever ends in the ValueError("Impossible!") of the list path.
C28_ImpossibleBranchIsUnreachable ==
    /\ (last.op = "get" /\ ~Has(last.arg, "id") /\ ~Has(last.arg, "name"))
          => (last.outcome = "InvalidQuery" /\ last.calls = <<>> /\ last.reads = 0)
    /\ last.outcome # "ValueError"

\* a single get with neither id nor name, with the flag that sends it to the
\* list path, has failed
C28_Witness ==
    /\ last.op = "get" /\ last.flag
    /\ ~Has(last.arg, "id") /\ ~Has(last.arg, "name")
    /\ last.outcome = "InvalidQuery"

\* C29: after a single get that succeeded, the caller's query has version,
\* locale and, for the types that declare it, includedData, with the
\* resolved values (the realm's version, the platform's default locale,
\* {"all"}) where the caller gave none, and every key the caller gave has
\* the value the caller gave it.
C29_QueryHoldsTheDefaults ==
    (last.op = "get" /\ last.outcome = "ok") =>
        /\ \A k \in Keys(last.arg) :
              Has(last.query, k) /\ Item(last.query, k) = Item(last.arg, k)
        /\ Has(last.query, "version") /\ Has(last.query, "locale")
        /\ ~Has(last.arg, "version")
              => (RealmCalls = {1}
                  /\ Item(last.query, "version") = last.answers[1].body["v"])
        /\ ~Has(last.arg, "locale")
              => Item(last.query, "locale") = default_locale(Item(last.arg, "platform"))
        /\ last.t # "map"
              => (Has(last.query, "includedData")
                  /\ Item(last.query, "includedData") = AllTags)

\* a get by name with neither version nor locale has returned a record
\* through the list, whose query is a copy without the name
C29_Witness ==
    /\ last.op = "get" /\ last.outcome = "ok" /\ last.result # NoResult
    /\ Has(last.arg, "name") /\ last.reads = 1
    /\ ~Has(last.arg, "version") /\ ~Has(last.arg, "locale")
    /\ Has(last.query, "name")

\* C30: a get_many by ids sends exactly one request in all, for the full
\* list of the query's platform, in the call, however many ids are asked
\* for (none included); no pull of its generator sends a request.
C30_OneRequestForAllIds ==
    /\ (last.op = "get_many" /\ last.outcome # "InvalidQuery") =>
          /\ Len(last.calls) = 1
          /\ last.calls[1].ep = ListEndpoint(last.t)
          /\ last.calls[1].id = PyNone
          /\ last.calls[1].platform = Item(last.arg, "platform")[2]
    /\ (last.op = "next" /\ gen.kind = "ids") => last.calls = <<>>

\* a get_many by ids that asks for no id has sent its request
C30_Witness ==
    /\ last.op = "get_many" /\ last.outcome = "ok"
    /\ Item(last.arg, "ids") = PyList(<<>>) /\ Len(last.calls) = 1

\* the hash of the list a single get of type t with the validated query q
\* asks the list operation for
ListHashOfGet(t, q) ==
    calculate_hash(Validate(validate_get_list_query(t),
                            Pop(Pop(q, "id"), "name"), RemoteFailure).query)
\* two validated queries share platform, version, locale and includedData
SameContext(a, b) ==
    \A k \in {"platform", "version", "locale", "includedData"} :
        /\ Has(a, k) <=> Has(b, k)
        /\ Has(a, k) => Item(a, k) = Item(b, k)
\* the validated queries of the single gets of type t that give a version
VersionedGets(t) ==
    {Validate(validate_get_query(t), q, RemoteFailure).query :
        q \in {g \in GetQueries :
                 /\ Has(g, "version")
                 /\ Validate(validate_get_query(t), g, RemoteFailure).outcome = "ok"}}
\* the list operation of the call got a payload and returned the list
ListReturned(l) ==
    /\ l.reads = 1
    /\ l.outcome \in {"ok", "NotFound"}
    /\ \A i \in 1..Len(l.answers) : l.answers[i].status = "ok"

\* C31: with the request-by-id flag on and a version in the query, a single
\* get whose list operation returned leaves the list in the cache of its
\* type under a hash that every get of that type with the same platform,
\* version, locale and includedData computes, by id or by name; a get made
\* while the cache holds that list sends no request and adds no list,
\* whether it finds its record or ends in NotFound.  So of a sequence of
\* such gets only the ones before the first whose list operation returned
\* send a request.
C31_OneListFetchForManyGets ==
    [][(/\ last'.op = "get" /\ last'.flag
        /\ Has(last'.arg, "version")
        /\ last'.outcome # "InvalidQuery")
       => /\ \A q \in VersionedGets(last'.t) :
                SameContext(q, last'.query)
                => ListHashOfGet(last'.t, q) = ListHashOfGet(last'.t, last'.query)
          /\ ListReturned(last')
             => ListHashOfGet(last'.t, last'.query) \in DOMAIN cache'[last'.t]
          /\ ListHashOfGet(last'.t, last'.query) \in DOMAIN cache[last'.t]
             => /\ last'.calls = <<>>
                /\ ListReturned(last')
                /\ DOMAIN cache'[last'.t] = DOMAIN cache[last'.t]]_vars

\* a get by name that ended in NotFound was answered from the list an
\* earlier get had fetched: it sent no request
C31_Witness ==
    /\ last.op = "get" /\ last.flag /\ Has(last.arg, "version")
    /\ Has(last.arg, "name") /\ ~Has(last.arg, "id")
    /\ last.outcome = "NotFound" /\ last.reads = 1 /\ last.calls = <<>>
    /\ ListHashOfGet(last.t, last.query) \in DOMAIN cache[last.t]

\* C32: a list call that raises, because the service answers 404 or fails
\* otherwise or because the stamping of the payload raises, leaves the
\* cache of every type as it was, with no list under the hash of the call;
\* and a list call whose hash the cache does not hold sends its request.  So
\* the next call with that hash fetches again.
C32_FailedListCallLeavesTheCaches ==
    [][(last'.op = "get_list" /\ last'.outcome # "InvalidQuery")
       => /\ last'.outcome # "ok"
             => /\ cache' = cache
                /\ calculate_hash(last'.query) \notin DOMAIN cache'[last'.t]
          /\ calculate_hash(last'.query) \notin DOMAIN cache[last'.t]
             => Len(last'.calls) = 1]_vars

\* a list call got its payload and raised while stamping it, with a list
\* of the same type in the cache under another hash
C32_Witness ==
    /\ last.op = "get_list" /\ last.outcome \in {"KeyError", "TypeError"}
    /\ Len(last.calls) = 1 /\ last.answers[1].status = "ok"
    /\ DOMAIN cache[last.t] # {}
    /\ calculate_hash(last.query) \notin DOMAIN cache[last.t]

\* the step is a list operation that missed, got its payload and returned
\* the list, called by the caller or by a single get on its list path
ListMissStored ==
    /\ last'.op \in {"get_list", "get"} /\ last'.reads = 1
    /\ last'.outcome \in {"ok", "NotFound"}
    /\ \E i \in 1..Len(last'.calls) :
          /\ last'.calls[i].ep = ListEndpoint(last'.t) /\ last'.calls[i].id = PyNone
          /\ last'.answers[i].status = "ok"
\* the step is a call or a pull of an operation that does not go through
\* a list operation
NoListOperation ==
    \/ last'.op \in {"get_many", "get_many_list", "next", "get_plain"}
    \/ last'.op = "get" /\ ~last'.flag /\ ~Has(last'.arg, "name")
\* the hash a list call with the platform, version and locale of the last
\* get_many by ids would look up
ManyListHash ==
    calculate_hash(Validate(validate_get_list_query(last.t),
                            Pop(last.arg, "ids"), RemoteFailure).query)

\* C33: a list is added to a cache only by a list operation that missed
\* and got its payload, one list, and to the cache of the type of the
\* call; the caches of the other types stay as they are in every step.
\* The request for one entity of a single get, the get_many calls and the
\* pulls of their generators, and get_versions, get_realms, get_language,
\* get_language_strings and get_profile_icons look nothing up and leave
\* every cache as it is; a valid get_many by ids sends its request whatever
\* the cache holds.
C33_OnlyAListMissAddsToACache ==
    [][(last'.op # "idle")
       => /\ \A u \in ListTypes :
                /\ DOMAIN cache[u] \subseteq DOMAIN cache'[u]
                /\ DOMAIN cache'[u] # DOMAIN cache[u]
                   => /\ ListMissStored /\ u = last'.t
                      /\ Cardinality(DOMAIN cache'[u]) = Cardinality(DOMAIN cache[u]) + 1
                /\ u # last'.t => cache'[u] = cache[u]
          /\ NoListOperation => (cache' = cache /\ last'.reads = 0)
          /\ (last'.op = "get_many" /\ last'.outcome # "InvalidQuery")
             => Len(last'.calls) = 1]_vars

\* a get_many by ids sent its request for a list that the cache holds for
\* the same platform, version, locale and includedData
C33_Witness ==
    /\ last.op = "get_many" /\ last.outcome = "ok" /\ Len(last.calls) = 1
    /\ last.reads = 0
    /\ ManyListHash \in DOMAIN cache[last.t]

\* C34: on the list-and-filter path the caller's query keeps its id and
\* its name, each with the value the caller gave it, and does not get the
\* key dataById, while the query the list operation was handed, and looked
\* up by, has neither id nor name and is the caller's query otherwise.
C34_IdentityStrippedFromACopy ==
    (ValidGet /\ ListPath)
    => /\ \A k \in {"id", "name"} :
             /\ Has(last.query, k) <=> Has(last.arg, k)
             /\ Has(last.arg, k) => Item(last.query, k) = Item(last.arg, k)
       /\ Has(last.query, "id") \/ Has(last.query, "name")
       /\ ~Has(last.query, "dataById")
       /\ ~Has(last.listq, "id") /\ ~Has(last.listq, "name")
       /\ \A k \in Keys(last.query) \ {"id", "name"} :
             Has(last.listq, k) /\ Item(last.listq, k) = Item(last.query, k)

\* a get of a champion by id went through the list operation, which put
\* dataById into the query it was handed
C34_Witness ==
    /\ ValidGet /\ ListPath /\ last.t = "champion" /\ last.outcome = "ok"
    /\ Has(last.arg, "id") /\ Has(last.query, "id")
    /\ Has(last.listq, "dataById") /\ ~Has(last.listq, "id")

\* the platform the last pull sent its request for, as the query of a
\* single get names it
PulledQuery == <<(<<"platform", PyPlatform(last.calls[1].platform)>>)>>
\* the last step is a pull of a generator over platforms of type t that
\* the service answered with a payload
PulledPayload(t) ==
    /\ last.op = "next" /\ last.t = t
    /\ Len(last.calls) = 1 /\ last.answers[1].status = "ok"

\* C35: the element a get_many of realms or of languages yields for a
\* platform is the record get_realms or get_language returns for that
\* platform from the same payload: the payload with the region of the
\* platform for realms, a record of the region and the list of languages
\* for languages.
C35_ManyYieldsWhatTheSingleGetReturns ==
    \A t \in {"realm", "language"} :
        PulledPayload(t)
        => Bind(Full(get_plain(t, PulledQuery, last.answers[1]), cache), LAMBDA single :
                /\ last.outcome = single.outcome
                /\ last.result = single.result)

\* the realms half of it: a pull of get_many_realms yields what get_realms
\* returns
RealmsYieldWhatGetRealmsReturns ==
    PulledPayload("realm")
    => Bind(Full(get_plain("realm", PulledQuery, last.answers[1]), cache), LAMBDA single :
            /\ last.outcome = "ok"
            /\ last.result = single.result
            /\ last.result["region"] = PyStr(Region(last.calls[1].platform)))

\* the schema of the get_many operation of the last call
ManyRules ==
    IF last.op = "get_many" THEN validate_get_many_query(last.t)
    ELSE validate_get_many_list_query(last.t)
\* the query the caller passed satisfies every declaration of the schema
ManyArgValid == \A i \in 1..Len(ManyRules) : RuleOk(ManyRules[i], last.arg)

\* C36: a get_many operation validates its query in the call: with a query
\* that breaks a declaration of its schema the call itself ends in
\* InvalidQuery, hands back no sequence and sends no request; a call that
\* handed a sequence back had a valid query, and no pull ends in
\* InvalidQuery.
C36_GetManyValidatesAtTheCall ==
    /\ last.op \in {"get_many", "get_many_list"}
       => /\ ~ManyArgValid
             => (last.outcome = "InvalidQuery" /\ gen = NoGen /\ last.calls = <<>>)
          /\ ManyArgValid => last.outcome # "InvalidQuery"
          /\ gen # NoGen => (ManyArgValid /\ last.outcome = "ok")
    /\ last.op = "next" => last.outcome # "InvalidQuery"

\* a get_many of lists was called with a query that has no platforms: the
\* call ended in InvalidQuery and the caller holds no sequence
C36_Witness ==
    /\ last.op = "get_many_list" /\ ~Has(last.arg, "platforms")
    /\ last.outcome = "InvalidQuery" /\ gen = NoGen

\* the get_many operations over platforms whose schema declares locale:
\* the five list types, language strings and profile icons
LocaleTypes == ManyPlatformTypes \ {"realm", "language"}
\* the last step is a pull of one of them that sent a request
LocalePull ==
    last.op = "next" /\ gen.kind = "platforms" /\ last.t \in LocaleTypes
    /\ Len(last.calls) = 1

\* C37: in a get_many over platforms, when the query has no locale the
\* request of a pull carries no locale parameter and the list it yields
\* has the default locale of the platform of that request; when the query
\* has a locale, the request carries it and the list of every platform
\* has it.
C37_LocaleOfEachPlatform ==
    LocalePull
    => IF Has(last.query, "locale")
       THEN /\ Has(last.calls[1].params, "locale")
            /\ Item(last.calls[1].params, "locale") = Item(last.query, "locale")
            /\ last.outcome = "ok"
               => last.result["locale"] = Item(last.query, "locale")
       ELSE /\ ~Has(last.calls[1].params, "locale")
            /\ last.outcome = "ok"
               => last.result["locale"] = PyStr(DefaultLocale(last.calls[1].platform))

\* with no locale in the query, the list of the first platform was stamped
\* with one default locale and the list of the second with another
C37_Witness ==
    /\ LocalePull /\ ~Has(last.query, "locale") /\ last.outcome = "ok"
    /\ gen.fetched = <<"NA1", "EUW1">>
    /\ last.result["locale"] = PyStr("en_GB")

====
